---- MODULE Spec2Model ----
(***************************************************************************)
(* A model of the two utilities of the repository:                         *)
(*   src/src/composite-stimuli-features.py  (resampler, main, __main__)    *)
(*   src/src/load_eeg.py                    (load_eeg)                     *)
(*                                                                         *)
(* Timestamps are integers counting ticks of 1/TicksPerSec second; sample  *)
(* values are integers; interpolated values are exact rationals, written   *)
(* as records [n |-> numerator, d |-> denominator] with d > 0.  Floating   *)
(* point rounding is not modelled.                                         *)
(***************************************************************************)
EXTENDS Integers, Sequences, FiniteSets, TLC

VARIABLES
    pc,                   \* position of the running function or script
    csv,                  \* content of the file a resampler call reads
    reference_timestamps, \* the reference timebase R
    value_columns,        \* the requested value column names
    result,               \* what the resampler call returned or raised
    argv,                 \* the command line of the script
    data_dir,             \* the files of the input directory, by name
    out_dir_exists,       \* whether the output directory exists
    out_files,            \* the files written to the output directory
    stim,                 \* index of the stimulus main's loop is at
    started,              \* the stimuli whose processing has started
    lum_df, amp_df, loud_df, composite_df,  \* main's tables, as rows
    window_size,          \* the moving-average window of line 71
    raised,               \* the exception that ended the run, or "none"
    subject_id, stimulus, \* load_eeg's arguments
    recording,            \* the recording file at the path load_eeg resolves
    file_code, data_path, \* load_eeg's locals
    files_read,           \* the paths load_eeg has read
    raw                   \* what load_eeg returned or raised

resample_vars == <<csv, reference_timestamps, value_columns, result>>
main_vars == <<argv, data_dir, out_dir_exists, out_files, stim, started,
               lum_df, amp_df, loud_df, composite_df, window_size, raised>>
eeg_vars == <<subject_id, stimulus, recording, file_code, data_path, files_read, raw>>
vars == <<pc, resample_vars, main_vars, eeg_vars>>

(* ------------------------------ bounds --------------------------------- *)

\* Largest timestamp (in ticks) of the enumerated input files.
MaxTime == 3
\* Longest enumerated reference timebase.
MaxRefLen == 2
\* Longest enumerated secondary series.
MaxSecLen == 3

Times == 0..MaxTime
\* Sample values of the enumerated files.
Vals == {10, 20}

(* ----------------------------- helpers --------------------------------- *)

SeqsUpTo(S, n) == UNION {[1..k -> S] : k \in 0..n}

Rat(num, den) == [n |-> num, d |-> den]

RatEq(a, b) == a.n * b.d = b.n * a.d

StrictlyIncreasing(s) == \A i \in 1..(Len(s) - 1) : s[i] < s[i + 1]

(* --------------------------- input files ------------------------------- *)

\* A headerless CSV file: `width` value columns after the literal 'frame'
\* column and the timestamp column; each row is <<timestamp, v1, .., vwidth>>.
CsvFile(width, rows) == [exists |-> TRUE, width |-> width, rows |-> rows]

\* A path at which there is no file.
MissingFile == [exists |-> FALSE, width |-> 0, rows |-> <<>>]

\* The enumerated rows: a timestamp and a value; a second value column holds
\* the other value of Vals, so that the two columns differ in every row.
Mirror(v) == 30 - v

CsvRows(width) ==
    {[c \in 1..(width + 1) |-> IF c = 1 THEN t ELSE IF c = 2 THEN v ELSE Mirror(v)] :
        t \in Times, v \in Vals}

CsvFiles(width) == {CsvFile(width, rows) : rows \in SeqsUpTo(CsvRows(width), MaxSecLen)}

\* The two worked examples of the specification, in ticks of half a second.
ExampleRef1 == <<0, 1, 2, 3, 4>>
ExampleSec1 == CsvFile(1, <<(<<0, 10>>), (<<2, 20>>), (<<4, 10>>)>>)
ExampleRef2 == <<0, 2, 4>>
ExampleSec2 == CsvFile(1, <<(<<1, 5>>), (<<3, 7>>)>>)

SecondaryFiles == CsvFiles(1) \cup CsvFiles(2) \cup {ExampleSec1, ExampleSec2}

ReferenceInputs == SeqsUpTo(Times, MaxRefLen) \cup {ExampleRef1, ExampleRef2}

Column(file, c) == [i \in 1..Len(file.rows) |-> file.rows[i][c]]

(* ------------------------------ np.interp ------------------------------ *)

\* numpy's linear_search(key, arr, len, 1): the index before the first i >= 2
\* (1-based) with key < arr[i]; numpy uses it for len(xp) <= 4.
RECURSIVE linear_search(_, _, _)
linear_search(key, arr, i) ==
    IF i <= Len(arr) /\ key >= arr[i]
    THEN linear_search(key, arr, i + 1)
    ELSE i - 1

\* numpy's binary_search_with_guess: 0 for a key before arr[1], Len(arr) + 1
\* for one after the last element (tested first), else the bracketing index.
binary_search_with_guess(key, arr) ==
    IF key > arr[Len(arr)] THEN Len(arr) + 1
    ELSE IF key < arr[1] THEN 0
    ELSE linear_search(key, arr, 2)

\* interp_at holding the left sample's value over the whole interval instead
\* of following the slope.
interp_at_step(x, xp, fp) ==
    LET n == Len(xp)
        j == binary_search_with_guess(x, xp)
    IN  IF n = 1 \/ j = 0 THEN Rat(fp[1], 1)
        ELSE IF j >= n THEN Rat(fp[n], 1)
        ELSE Rat(fp[j], 1)

\* One output element of np.interp(x, xp, fp) for a non-empty xp.
interp_at(x, xp, fp) ==
    LET n == Len(xp)
        lval == Rat(fp[1], 1)
        rval == Rat(fp[n], 1)
    IN  IF n = 1
        THEN (IF x < xp[1] THEN lval ELSE IF x > xp[1] THEN rval ELSE Rat(fp[1], 1))
        ELSE LET j == binary_search_with_guess(x, xp)
             IN  IF j = 0 THEN lval
                 ELSE IF j = n + 1 THEN rval
                 ELSE IF j = n THEN Rat(fp[j], 1)
                 ELSE IF xp[j] = x THEN Rat(fp[j], 1)
                 ELSE \* slope * (x - xp[j]) + fp[j]
                      Rat((fp[j + 1] - fp[j]) * (x - xp[j]) + fp[j] * (xp[j + 1] - xp[j]),
                          xp[j + 1] - xp[j])

\* np.interp(x, xp, fp): one element per element of x, in x's order.
np_interp(x, xp, fp) == [i \in 1..Len(x) |-> interp_at(x[i], xp, fp)]

(* ------------------- load_and_interpolate_to_reference ------------------ *)

Raise(e) == [kind |-> "raise", error |-> e]
Return(v) == [kind |-> "return", value |-> v]
\* No outcome yet.
Pending == [kind |-> "pending"]

\* The function with its result table built on the file's own timestamps
\* instead of the reference timestamps.
load_and_interpolate_on_file_timestamps(file, ref, cols) ==
    IF ~file.exists THEN Raise("FileNotFoundError")
    ELSE IF Len(file.rows) = 0 THEN Raise("EmptyDataError")
    ELSE IF file.width # Len(cols) THEN Raise("ValueError")
    ELSE Return([timestamp |-> Column(file, 1),
                 columns |-> [c \in 1..Len(cols) |->
                     np_interp(Column(file, 1), Column(file, 1), Column(file, c + 1))]])

\* The whole function: what it returns or raises for a file, a reference
\* timebase and a list of requested value column names.
load_and_interpolate_to_reference(file, ref, cols) ==
    IF ~file.exists THEN Raise("FileNotFoundError")
    ELSE IF Len(file.rows) = 0 THEN Raise("EmptyDataError")
    ELSE IF file.width # Len(cols) THEN Raise("ValueError")
    ELSE Return([timestamp |-> ref,
                 columns |-> [c \in 1..Len(cols) |->
                     np_interp(ref, Column(file, 1), Column(file, c + 1))]])

AmplitudeColumns == <<"amp_rms", "amp_peak">>
LoudnessColumns == <<"ebu_r128_M">>

(* --------------------------------- main --------------------------------- *)

\* Ticks per second of the timestamps.
TicksPerSec == 2
\* The moving average's duration in seconds (line 71).
WindowSeconds == 5

\* main's stimuli dictionary, in insertion order.
stimuli == <<
    [stimulus_name |-> "BangBangYouAreDead",
     file_base |-> "BangBangYouAreDead_SerialTrigInterval-1sec"],
    [stimulus_name |-> "StoryCorps_Q&A",
     file_base |-> "StoryCorps_Q&A_SerialTrigInterval-1sec"] >>

LuminanceColumns == <<"min_lum", "mean_lum", "max_lum", "diff_lum">>

Suffixes == {"-luminance.csv", "-amplitude.csv", "-loudness(EBUR128,LUFS).csv"}
InputNames == {<<stimuli[i].file_base, x>> : i \in 1..Len(stimuli), x \in Suffixes}

CompositeCsv(i) == <<stimuli[i].stimulus_name, "_composite_frame_level_analysis.csv">>
CompositePng(i) == <<stimuli[i].stimulus_name, "_composite_time_series.png">>

\* A luminance file with the given frame timestamps.
LumFile(ts) == CsvFile(4, [i \in 1..Len(ts) |-> <<ts[i], 10, 10, 20, 10>>])

LuminanceFiles ==
    { MissingFile,
      LumFile(<<0, 1, 2>>),
      LumFile(<<0, 3, 7>>),
      LumFile(<<0, 1, 1>>),
      LumFile(<<0, 11>>),
      CsvFile(3, << <<0, 10, 10, 20>>, <<1, 10, 10, 20>> >>) }

AmplitudeFiles ==
    { MissingFile,
      CsvFile(2, <<>>),
      CsvFile(1, << <<0, 10>>, <<2, 20>> >>),
      CsvFile(2, << <<0, 10, 20>>, <<2, 20, 10>> >>),
      CsvFile(2, << <<2, 10, 20>>, <<0, 20, 10>> >>) }

LoudnessFiles ==
    { MissingFile,
      CsvFile(1, << <<1, 10>>, <<3, 20>> >>),
      CsvFile(1, << <<3, 10>>, <<1, 20>> >>) }

FilesFor(name) ==
    IF name[2] = "-luminance.csv" THEN LuminanceFiles
    ELSE IF name[2] = "-amplitude.csv" THEN AmplitudeFiles
    ELSE LoudnessFiles

DataDirs == {d \in [InputNames -> LuminanceFiles \cup AmplitudeFiles \cup LoudnessFiles] :
                \A name \in InputNames : d[name] \in FilesFor(name)}

\* A table as a sequence of rows, each a timestamp and its cells in column order.
RowsOfFile(file) ==
    [i \in 1..Len(file.rows) |->
        [timestamp |-> file.rows[i][1],
         cells |-> [c \in 1..file.width |-> Rat(file.rows[i][c + 1], 1)]]]

RowsOfTable(tbl) ==
    [i \in 1..Len(tbl.timestamp) |->
        [timestamp |-> tbl.timestamp[i],
         cells |-> [c \in 1..Len(tbl.columns) |-> tbl.columns[c][i]]]]

TimestampsOf(rows) == [i \in 1..Len(rows) |-> rows[i].timestamp]

\* The rows of `right` matching one left row, joined to it, in right's order.
RECURSIVE join_row(_, _, _)
join_row(row, right, j) ==
    IF j > Len(right) THEN <<>>
    ELSE (IF right[j].timestamp = row.timestamp
          THEN <<[timestamp |-> row.timestamp, cells |-> row.cells \o right[j].cells]>>
          ELSE <<>>) \o join_row(row, right, j + 1)

\* A merge that pairs the rows of both tables whatever their timestamps.
RECURSIVE cross_rows(_, _, _)
cross_rows(left, right, i) ==
    IF i > Len(left) THEN <<>>
    ELSE [j \in 1..Len(right) |->
             [timestamp |-> left[i].timestamp, cells |-> left[i].cells \o right[j].cells]]
         \o cross_rows(left, right, i + 1)

\* left.merge(right, on='timestamp'): the inner join, in the order of left's keys.
RECURSIVE merge_rows(_, _, _)
merge_rows(left, right, i) ==
    IF i > Len(left) THEN <<>>
    ELSE join_row(left[i], right, 1) \o merge_rows(left, right, i + 1)

(* np.median(np.diff(timestamps)) *)

np_diff(ts) == [i \in 1..(Len(ts) - 1) |-> ts[i + 1] - ts[i]]

RECURSIVE insert_sorted(_, _)
insert_sorted(x, s) ==
    IF s = <<>> THEN <<x>>
    ELSE IF x <= Head(s) THEN <<x>> \o s
    ELSE <<Head(s)>> \o insert_sorted(x, Tail(s))

RECURSIVE sort(_)
sort(s) == IF s = <<>> THEN <<>> ELSE insert_sorted(Head(s), sort(Tail(s)))

\* The median of a non-empty sequence, as a rational number of ticks.
np_median(s) ==
    LET t == sort(s)
        n == Len(t)
    IN  IF n % 2 = 1 THEN Rat(t[(n + 1) \div 2], 1)
        ELSE Rat(t[n \div 2] + t[n \div 2 + 1], 2)

\* int(a / b) for b > 0: truncation toward zero.
Trunc(a, b) == IF a >= 0 THEN a \div b ELSE -((-a) \div b)

\* round(a / b) for b > 0, halves rounded up.
RoundHalfUp(a, b) == (2 * a + b) \div (2 * b)

\* The window computed with round() in place of int().
window_for_interval_rounded(m) == RoundHalfUp(WindowSeconds * TicksPerSec * m.d, m.n)

\* int(5 / m) for a median interval of m ticks, m > 0.
window_for_interval(m) == Trunc(WindowSeconds * TicksPerSec * m.d, m.n)

\* Line 71: the window, or the exception int() raises for a NaN median (fewer
\* than two timestamps) or an infinite quotient (a zero median).
compute_window_size(ts) ==
    IF Len(ts) < 2 THEN Raise("ValueError")
    ELSE LET m == np_median(np_diff(ts))
         IN  IF m.n = 0 THEN Raise("OverflowError")
             ELSE IF m.n > 0 THEN Return(window_for_interval(m))
             ELSE Return(-window_for_interval(Rat(-m.n, m.d)))

\* Line 72: rolling(window, min_periods=1) raises for a window below one.
rolling_raises(w) == w < 1

MainIdle ==
    /\ argv = [data_dir |-> FALSE]
    /\ data_dir = [name \in InputNames |-> MissingFile]
    /\ out_dir_exists = FALSE
    /\ out_files = {}
    /\ stim = 0
    /\ started = {}
    /\ lum_df = <<>> /\ amp_df = <<>> /\ loud_df = <<>> /\ composite_df = <<>>
    /\ window_size = Pending
    /\ raised = "none"

EegIdle ==
    /\ subject_id = 0
    /\ stimulus = ""
    /\ recording = [exists |-> FALSE, channels |-> {}]
    /\ file_code = 0
    /\ data_path = <<>>
    /\ files_read = {}
    /\ raw = Pending

ResampleIdle ==
    /\ csv = MissingFile
    /\ reference_timestamps = <<>>
    /\ value_columns = <<>>
    /\ result = Pending

\* The script run from the command line, or main called with two paths.
Init ==
    /\ pc \in {"script_start", "main_call"}
    /\ argv \in [data_dir : BOOLEAN]
    /\ pc = "main_call" => argv.data_dir
    /\ data_dir \in DataDirs
    /\ out_dir_exists \in BOOLEAN
    /\ out_files = {}
    /\ stim = 0
    /\ started = {}
    /\ lum_df = <<>> /\ amp_df = <<>> /\ loud_df = <<>> /\ composite_df = <<>>
    /\ window_size = Pending
    /\ raised = "none"
    /\ ResampleIdle
    /\ EegIdle

Fail(e) == pc' = "main_raised" /\ raised' = e

\* Lines 106-110: the arguments are parsed; a missing --data_dir exits.
ParseArgs ==
    /\ pc = "script_start"
    /\ pc' = (IF argv.data_dir THEN "script_parsed" ELSE "script_exit")
    /\ raised' = (IF argv.data_dir THEN raised ELSE "SystemExit")
    /\ UNCHANGED <<eeg_vars, resample_vars, argv, data_dir, out_dir_exists, out_files, stim,
                   started, lum_df, amp_df, loud_df, composite_df, window_size>>

\* The end of the file follows parse_args: the script exits.
ScriptEnd ==
    /\ pc = "script_parsed"
    /\ pc' = "script_exit"
    /\ UNCHANGED <<eeg_vars, resample_vars, main_vars>>

\* Lines 27-32.
Mkdir ==
    /\ pc = "main_call"
    /\ out_dir_exists' = TRUE
    /\ stim' = 1
    /\ pc' = "loop"
    /\ UNCHANGED <<eeg_vars, resample_vars, argv, data_dir, out_files, started,
                   lum_df, amp_df, loud_df, composite_df, window_size, raised>>

\* Line 34: the next stimulus, or the end of main.
LoopHead ==
    /\ pc = "loop"
    /\ IF stim <= Len(stimuli)
       THEN pc' = "load_lum" /\ started' = started \cup {stim}
       ELSE pc' = "main_return" /\ started' = started
    /\ UNCHANGED <<eeg_vars, resample_vars, argv, data_dir, out_dir_exists, out_files, stim,
                   lum_df, amp_df, loud_df, composite_df, window_size, raised>>

\* Lines 36-40.
LoadLuminance ==
    /\ pc = "load_lum"
    /\ LET file == data_dir[<<stimuli[stim].file_base, "-luminance.csv">>]
       IN  IF ~file.exists
           THEN Fail("FileNotFoundError") /\ UNCHANGED <<lum_df, reference_timestamps>>
           ELSE IF Len(file.rows) = 0
           THEN Fail("EmptyDataError") /\ UNCHANGED <<lum_df, reference_timestamps>>
           ELSE IF file.width # Len(LuminanceColumns)
           THEN Fail("ValueError") /\ UNCHANGED <<lum_df, reference_timestamps>>
           ELSE /\ lum_df' = RowsOfFile(file)
                /\ reference_timestamps' = Column(file, 1)
                /\ pc' = "interp_amp"
                /\ UNCHANGED raised
    /\ UNCHANGED <<eeg_vars, csv, value_columns, result, argv, data_dir, out_dir_exists,
                   out_files, stim, started, amp_df, loud_df, composite_df, window_size>>

\* Lines 43-47.
InterpolateAmplitude ==
    /\ pc = "interp_amp"
    /\ csv' = data_dir[<<stimuli[stim].file_base, "-amplitude.csv">>]
    /\ value_columns' = AmplitudeColumns
    /\ result' = load_and_interpolate_to_reference(csv', reference_timestamps, value_columns')
    /\ IF result'.kind = "raise"
       THEN Fail(result'.error) /\ UNCHANGED amp_df
       ELSE amp_df' = RowsOfTable(result'.value) /\ pc' = "interp_loud" /\ UNCHANGED raised
    /\ UNCHANGED <<eeg_vars, reference_timestamps, argv, data_dir, out_dir_exists, out_files,
                   stim, started, lum_df, loud_df, composite_df, window_size>>

\* Lines 50-54.
InterpolateLoudness ==
    /\ pc = "interp_loud"
    /\ csv' = data_dir[<<stimuli[stim].file_base, "-loudness(EBUR128,LUFS).csv">>]
    /\ value_columns' = LoudnessColumns
    /\ result' = load_and_interpolate_to_reference(csv', reference_timestamps, value_columns')
    /\ IF result'.kind = "raise"
       THEN Fail(result'.error) /\ UNCHANGED loud_df
       ELSE loud_df' = RowsOfTable(result'.value) /\ pc' = "merge" /\ UNCHANGED raised
    /\ UNCHANGED <<eeg_vars, reference_timestamps, argv, data_dir, out_dir_exists, out_files,
                   stim, started, lum_df, amp_df, composite_df, window_size>>

\* Lines 57-59.
Merge ==
    /\ pc = "merge"
    /\ composite_df' = merge_rows(merge_rows(lum_df, amp_df, 1), loud_df, 1)
    /\ pc' = "write_csv"
    /\ UNCHANGED <<eeg_vars, resample_vars, argv, data_dir, out_dir_exists, out_files, stim,
                   started, lum_df, amp_df, loud_df, window_size, raised>>

\* Lines 61-63.
WriteCsv ==
    /\ pc = "write_csv"
    /\ out_files' = out_files \cup {CompositeCsv(stim)}
    /\ pc' = "plot"
    /\ UNCHANGED <<eeg_vars, resample_vars, argv, data_dir, out_dir_exists, stim, started,
                   lum_df, amp_df, loud_df, composite_df, window_size, raised>>

\* Lines 66-97.
Plot ==
    /\ pc = "plot"
    /\ window_size' = compute_window_size(TimestampsOf(composite_df))
    /\ IF window_size'.kind = "raise" THEN Fail(window_size'.error)
       ELSE IF rolling_raises(window_size'.value) THEN Fail("ValueError")
       ELSE pc' = "savefig" /\ UNCHANGED raised
    /\ UNCHANGED <<eeg_vars, resample_vars, argv, data_dir, out_dir_exists, out_files, stim,
                   started, lum_df, amp_df, loud_df, composite_df>>

\* Lines 99-103, and back to the loop.
SaveFig ==
    /\ pc = "savefig"
    /\ out_files' = out_files \cup {CompositePng(stim)}
    /\ stim' = stim + 1
    /\ pc' = "loop"
    /\ UNCHANGED <<eeg_vars, resample_vars, argv, data_dir, out_dir_exists, started,
                   lum_df, amp_df, loud_df, composite_df, window_size, raised>>

Next ==
    \/ ParseArgs \/ ScriptEnd
    \/ Mkdir \/ LoopHead \/ LoadLuminance \/ InterpolateAmplitude
    \/ InterpolateLoudness \/ Merge \/ WriteCsv \/ Plot \/ SaveFig

Spec == Init /\ [][Next]_vars

(* ----------------------- the resampler, called alone -------------------- *)

InitResample ==
    /\ pc = "resample_call"
    /\ csv \in SecondaryFiles \cup {MissingFile}
    /\ reference_timestamps \in ReferenceInputs
    /\ value_columns \in {AmplitudeColumns, LoudnessColumns}
    /\ result = Pending
    /\ MainIdle
    /\ EegIdle

Resample ==
    /\ pc = "resample_call"
    /\ result' = load_and_interpolate_to_reference(csv, reference_timestamps, value_columns)
    /\ pc' = "resample_done"
    /\ UNCHANGED <<csv, reference_timestamps, value_columns, main_vars, eeg_vars>>

NextResample == Resample

SpecResample == InitResample /\ [][NextResample]_vars

(* ------------------- the moving-average window, alone -------------------- *)

\* Largest timestamp (in ticks) of the enumerated window inputs.
MaxWindowTime == 12
\* Longest enumerated timestamp column.
MaxWindowLen == 3

BareRows(ts) == [i \in 1..Len(ts) |-> [timestamp |-> ts[i], cells |-> <<>>]]

InitWindow ==
    /\ pc = "window_call"
    /\ composite_df \in {BareRows(ts) : ts \in SeqsUpTo(0..MaxWindowTime, MaxWindowLen)}
    /\ argv = [data_dir |-> FALSE]
    /\ data_dir = [name \in InputNames |-> MissingFile]
    /\ out_dir_exists = FALSE
    /\ out_files = {}
    /\ stim = 0
    /\ started = {}
    /\ lum_df = <<>> /\ amp_df = <<>> /\ loud_df = <<>>
    /\ window_size = Pending
    /\ raised = "none"
    /\ ResampleIdle
    /\ EegIdle

\* Line 71.
ComputeWindow ==
    /\ pc = "window_call"
    /\ window_size' = compute_window_size(TimestampsOf(composite_df))
    /\ IF window_size'.kind = "raise"
       THEN pc' = "window_raised" /\ raised' = window_size'.error
       ELSE pc' = "window_computed" /\ UNCHANGED raised
    /\ UNCHANGED <<eeg_vars, resample_vars, argv, data_dir, out_dir_exists, out_files,
                   stim, started, lum_df, amp_df, loud_df, composite_df>>

\* Line 72.
Rolling ==
    /\ pc = "window_computed"
    /\ IF rolling_raises(window_size.value)
       THEN pc' = "window_raised" /\ raised' = "ValueError"
       ELSE pc' = "window_rolled" /\ UNCHANGED raised
    /\ UNCHANGED <<eeg_vars, resample_vars, argv, data_dir, out_dir_exists, out_files,
                   stim, started, lum_df, amp_df, loud_df, composite_df, window_size>>

NextWindow == ComputeWindow \/ Rolling

SpecWindow == InitWindow /\ [][NextWindow]_vars

(* -------------------------------- load_eeg ------------------------------- *)

\* Largest enumerated subject identifier.
MaxSubject == 4

StoryCorpsCode == 71
BangBangCode == 72

StimulusNames ==
    {"StoryCorps_Q&A", "BangBangYouAreDead", "storycorps_q&a", "BangBang", ""}

eog_channel_names == {"HL_EOG", "HR_EOG", "VA_EOG", "VB_EOG"}

Recordings ==
    { [exists |-> FALSE, channels |-> {}],
      [exists |-> TRUE, channels |-> eog_channel_names \cup {"Cz"}],
      [exists |-> TRUE, channels |-> {"Cz"}] }

\* Lines 23-28 with an unknown name falling back to the first recording.
file_code_or_default(name) ==
    IF name = "BangBangYouAreDead" THEN Return(BangBangCode) ELSE Return(StoryCorpsCode)

\* Lines 23-28.
select_file_code(name) ==
    IF name = "StoryCorps_Q&A" THEN Return(StoryCorpsCode)
    ELSE IF name = "BangBangYouAreDead" THEN Return(BangBangCode)
    ELSE Raise("ValueError")

InitEeg ==
    /\ pc = "eeg_call"
    /\ subject_id \in 1..MaxSubject
    /\ stimulus \in StimulusNames
    /\ recording \in Recordings
    /\ file_code = 0
    /\ data_path = <<>>
    /\ files_read = {}
    /\ raw = Pending
    /\ MainIdle
    /\ ResampleIdle

\* Lines 23-28.
SelectFileCode ==
    /\ pc = "eeg_call"
    /\ LET r == select_file_code(stimulus)
       IN  IF r.kind = "raise"
           THEN raw' = r /\ pc' = "eeg_raised" /\ UNCHANGED file_code
           ELSE file_code' = r.value /\ pc' = "eeg_path" /\ UNCHANGED raw
    /\ UNCHANGED <<subject_id, stimulus, recording, data_path, files_read,
                   resample_vars, main_vars>>

\* Lines 30-32.
ResolvePath ==
    /\ pc = "eeg_path"
    /\ data_path' = <<"data/", file_code, "_HS1", subject_id, "_", stimulus, ".set">>
    /\ pc' = "eeg_read"
    /\ UNCHANGED <<subject_id, stimulus, recording, file_code, files_read, raw,
                   resample_vars, main_vars>>

\* Line 33.
ReadRaw ==
    /\ pc = "eeg_read"
    /\ files_read' = files_read \cup {data_path}
    /\ IF recording.exists
       THEN pc' = "eeg_types" /\ UNCHANGED raw
       ELSE pc' = "eeg_raised" /\ raw' = Raise("FileNotFoundError")
    /\ UNCHANGED <<subject_id, stimulus, recording, file_code, data_path,
                   resample_vars, main_vars>>

\* Lines 34-35.
SetChannelTypes ==
    /\ pc = "eeg_types"
    /\ IF eog_channel_names \subseteq recording.channels
       THEN pc' = "eeg_return" /\ raw' = Return([path |-> data_path, eog |-> eog_channel_names])
       ELSE pc' = "eeg_raised" /\ raw' = Raise("ValueError")
    /\ UNCHANGED <<subject_id, stimulus, recording, file_code, data_path, files_read,
                   resample_vars, main_vars>>

NextEeg == SelectFileCode \/ ResolvePath \/ ReadRaw \/ SetChannelTypes

SpecEeg == InitEeg /\ [][NextEeg]_vars

(* ------------------------ claims on the resampler ----------------------- *)

ResampleDone == pc = "resample_done"
Returned == ResampleDone /\ result.kind = "return"
SecTimes == Column(csv, 1)
Ints(s) == [i \in 1..Len(s) |-> Rat(s[i], 1)]
SameRats(a, b) == Len(a) = Len(b) /\ \A i \in 1..Len(a) : RatEq(a[i], b[i])

\* C1: for a non-empty, strictly increasing secondary series, every reference
\* timestamp t with t0 <= t <= t1 for two consecutive samples (t0, v0) and
\* (t1, v1) gets, in each value column, v0 + (v1 - v0) * (t - t0) / (t1 - t0);
\* and R = [0, .5, 1, 1.5, 2], S = [(0, 10), (1, 20), (2, 10)] give
\* [10, 15, 20, 15, 10].
C1_LinearInterpolation ==
    /\ (Returned /\ StrictlyIncreasing(SecTimes)) =>
          \A i \in 1..Len(reference_timestamps) :
          \A k \in 1..(Len(SecTimes) - 1) :
          \A c \in 1..Len(value_columns) :
            LET t  == reference_timestamps[i]
                t0 == SecTimes[k]
                t1 == SecTimes[k + 1]
                v0 == Column(csv, c + 1)[k]
                v1 == Column(csv, c + 1)[k + 1]
            IN  (t0 <= t /\ t <= t1) =>
                  RatEq(result.value.columns[c][i],
                        Rat(v0 * (t1 - t0) + (v1 - v0) * (t - t0), t1 - t0))
    /\ (ResampleDone /\ csv = ExampleSec1 /\ reference_timestamps = ExampleRef1
            /\ value_columns = LoudnessColumns) =>
          /\ result.kind = "return"
          /\ SameRats(result.value.columns[1], Ints(<<10, 15, 20, 15, 10>>))

\* A returned table with a reference timestamp strictly inside an interval
\* whose two samples differ, and the worked example.
C1_Witness ==
    /\ Returned /\ StrictlyIncreasing(SecTimes)
    /\ \E i \in 1..Len(reference_timestamps) : \E k \in 1..(Len(SecTimes) - 1) :
          /\ SecTimes[k] < reference_timestamps[i]
          /\ reference_timestamps[i] < SecTimes[k + 1]
          /\ Column(csv, 2)[k] # Column(csv, 2)[k + 1]
          /\ k > 1

\* C2: every reference timestamp strictly before the series' first timestamp
\* gets the series' first value and every one strictly after its last
\* timestamp gets its last value; R = [0, 1, 2], S = [(.5, 5), (1.5, 7)]
\* give [5, 6, 7].
C2_FlatExtrapolation ==
    /\ Returned =>
          \A i \in 1..Len(reference_timestamps) :
          \A c \in 1..Len(value_columns) :
            LET t == reference_timestamps[i]
                n == Len(SecTimes)
            IN  /\ t < SecTimes[1] =>
                      RatEq(result.value.columns[c][i], Rat(Column(csv, c + 1)[1], 1))
                /\ t > SecTimes[n] =>
                      RatEq(result.value.columns[c][i], Rat(Column(csv, c + 1)[n], 1))
    /\ (ResampleDone /\ csv = ExampleSec2 /\ reference_timestamps = ExampleRef2
            /\ value_columns = LoudnessColumns) =>
          /\ result.kind = "return"
          /\ SameRats(result.value.columns[1], Ints(<<5, 6, 7>>))

\* C2 on the series the resampler is specified to accept: the same clamping,
\* for a secondary series whose timestamps are strictly increasing.
C2_FlatExtrapolationWhenIncreasing ==
    (Returned /\ StrictlyIncreasing(SecTimes)) => C2_FlatExtrapolation

\* C3: a returned table has exactly len(R) rows and its timestamp column is R
\* in R's order, whatever the (non-empty) secondary series; and a table is
\* returned for every non-empty file holding the requested columns.
C3_RowCountIsReference ==
    /\ Returned =>
          /\ result.value.timestamp = reference_timestamps
          /\ Len(result.value.columns) = Len(value_columns)
          /\ \A c \in 1..Len(value_columns) :
                Len(result.value.columns[c]) = Len(reference_timestamps)
    /\ (ResampleDone /\ csv.exists /\ Len(csv.rows) > 0
            /\ csv.width = Len(value_columns)) => result.kind = "return"

\* A table returned for a secondary series longer than the reference and
\* reaching outside the reference's time range.
C3_Witness ==
    /\ Returned
    /\ Len(reference_timestamps) > 0
    /\ Len(SecTimes) > Len(reference_timestamps)
    /\ \E k \in 1..Len(SecTimes) : \A i \in 1..Len(reference_timestamps) :
          SecTimes[k] > reference_timestamps[i]

NonDecreasing(s) == \A i \in 1..(Len(s) - 1) : s[i] <= s[i + 1]

\* C4: the resampler fails, returning no table, when the secondary series is
\* empty, when a requested value column is absent from the file, and when the
\* secondary timestamps are not monotonically increasing.
C4_RejectsBadInput ==
    (ResampleDone /\ csv.exists) =>
        /\ Len(csv.rows) = 0 => result.kind = "raise"
        /\ csv.width < Len(value_columns) => result.kind = "raise"
        /\ ~NonDecreasing(SecTimes) => result.kind = "raise"

\* The two cases of C4 the code does reject.
C4_EmptyOrMissingColumnRejected ==
    (ResampleDone /\ csv.exists) =>
        /\ Len(csv.rows) = 0 => result.kind = "raise"
        /\ csv.width < Len(value_columns) => result.kind = "raise"

(* ---------------------------- claims on main ----------------------------- *)

Merged == pc = "write_csv"

SameTimebase ==
    /\ TimestampsOf(lum_df) = reference_timestamps
    /\ TimestampsOf(amp_df) = reference_timestamps
    /\ TimestampsOf(loud_df) = reference_timestamps

\* One composite row per reference timestamp, in reference order, each made
\* of the cells of the same row of the three tables.
OneRowPerReferenceTimestamp ==
    /\ TimestampsOf(composite_df) = reference_timestamps
    /\ \A i \in 1..Len(composite_df) :
          composite_df[i].cells = lum_df[i].cells \o amp_df[i].cells \o loud_df[i].cells

NoRepeats(s) == \A i, j \in 1..Len(s) : i # j => s[i] # s[j]

\* C5 as stated: when the three tables carry the identical reference
\* timestamp sequence R, the two merges give exactly len(R) rows, one per
\* reference timestamp in reference order.
C5_MergeKeepsRows_Original ==
    (Merged /\ SameTimebase) => OneRowPerReferenceTimestamp

\* C5, amended: when the three tables carry the identical reference timestamp
\* sequence R and no timestamp occurs twice in R, the two merges give exactly
\* len(R) rows, one per reference timestamp in reference order.
C5_MergeKeepsRows ==
    (Merged /\ SameTimebase /\ NoRepeats(reference_timestamps)) =>
        OneRowPerReferenceTimestamp

\* Three tables of three rows on distinct timestamps have been merged.
C5_Witness ==
    /\ Merged /\ SameTimebase /\ NoRepeats(reference_timestamps)
    /\ Len(reference_timestamps) >= 3
    /\ Len(composite_df) = Len(reference_timestamps)

WellFormedFile(file, width) ==
    /\ file.exists
    /\ file.width = width
    /\ Len(file.rows) >= 2
    /\ StrictlyIncreasing(Column(file, 1))

WellFormedDataDir ==
    \A i \in 1..Len(stimuli) :
        /\ WellFormedFile(data_dir[<<stimuli[i].file_base, "-luminance.csv">>],
                          Len(LuminanceColumns))
        /\ WellFormedFile(data_dir[<<stimuli[i].file_base, "-amplitude.csv">>],
                          Len(AmplitudeColumns))
        /\ WellFormedFile(data_dir[<<stimuli[i].file_base, "-loudness(EBUR128,LUFS).csv">>],
                          Len(LoudnessColumns))

AllOutputs == UNION {{CompositeCsv(i), CompositePng(i)} : i \in 1..Len(stimuli)}

\* C8: the script run with a data directory of well-formed files ends with
\* the output directory existing and holding, for each of the two stimuli,
\* its composite CSV and its chart image.
C8_ScriptProducesOutputs ==
    (pc = "script_exit" /\ argv.data_dir /\ WellFormedDataDir) =>
        (out_dir_exists /\ out_files = AllOutputs)

\* C9: a failure while processing one stimulus does not prevent the next
\* stimulus from being attempted: when main has ended, by returning or by
\* an exception, the processing of every stimulus has started.
C9_NextStimulusAttempted ==
    pc \in {"main_raised", "main_return"} => started = 1..Len(stimuli)

(* ----------------------- claims on the window length --------------------- *)

WindowComputed == pc = "window_computed" /\ window_size.kind = "return"

MedianInterval == np_median(np_diff(TimestampsOf(composite_df)))

\* w is 5 / m rounded to a nearest integer (either way at a half).
IsRounded(w, m) ==
    LET a == WindowSeconds * TicksPerSec * m.d
        d == 2 * (w * m.n - a)
    IN  d <= m.n /\ -d <= m.n

\* C6: the window length is round(5 / m) for the median interval m of the
\* reference timestamps, and never less than one sample: a reference whose
\* median interval exceeds 5 seconds gets a window of 1.
C6_WindowIsRoundedAndPositive ==
    (pc \in {"window_computed", "window_raised", "window_rolled"}
        /\ Len(composite_df) >= 2
        /\ StrictlyIncreasing(TimestampsOf(composite_df))) =>
        /\ window_size.kind = "return"
        /\ window_size.value >= 1
        /\ \/ IsRounded(window_size.value, MedianInterval)
           \/ /\ window_size.value = 1
              /\ WindowSeconds * TicksPerSec * MedianInterval.d < MedianInterval.n

Halved(m) == Rat(m.n, 2 * m.d)

\* C7 as stated: the window computed for the interval m / 2 is exactly twice
\* the window computed for the interval m.
C7_HalvingDoubles_Original ==
    (WindowComputed /\ MedianInterval.n > 0) =>
        window_for_interval(Halved(MedianInterval)) = 2 * window_size.value

\* C7, amended: for a positive median interval m the window computed for the
\* interval m / 2 is twice the window computed for m, or one sample more.
C7_HalvingDoubles ==
    (WindowComputed /\ MedianInterval.n > 0) =>
        window_for_interval(Halved(MedianInterval)) \in
            {2 * window_size.value, 2 * window_size.value + 1}

\* A window of at least one sample whose halved interval gives one sample
\* more than twice as many.
C7_Witness ==
    /\ WindowComputed /\ MedianInterval.n > 0
    /\ window_size.value >= 1
    /\ window_for_interval(Halved(MedianInterval)) = 2 * window_size.value + 1

(* --------------------------- claims on load_eeg -------------------------- *)

KnownStimuli == {"StoryCorps_Q&A", "BangBangYouAreDead"}

\* C10: load_eeg called with a stimulus name other than 'StoryCorps_Q&A' and
\* 'BangBangYouAreDead' raises before any recording path is resolved or any
\* file read; for the two literals it resolves file codes 71 and 72.
C10_UnknownStimulusRejected ==
    /\ (pc # "eeg_call" /\ stimulus \notin KnownStimuli) =>
          /\ pc = "eeg_raised"
          /\ raw = Raise("ValueError")
          /\ data_path = <<>>
          /\ files_read = {}
    /\ (pc \notin {"eeg_call", "eeg_raised"} \/ files_read # {}) =>
          /\ stimulus = "StoryCorps_Q&A" => file_code = StoryCorpsCode
          /\ stimulus = "BangBangYouAreDead" => file_code = BangBangCode
          /\ stimulus \in KnownStimuli
          /\ pc # "eeg_path" => (data_path[2] = file_code /\ data_path[6] = stimulus)

\* load_eeg has raised for an unknown stimulus name.
C10_Witness ==
    pc = "eeg_raised" /\ stimulus \notin KnownStimuli /\ raw.kind = "raise"

====
